---- MODULE Spec2Model ----
(***************************************************************************)
(* Person-identity stitching of the custom AVA pipeline.                   *)
(*                                                                         *)
(*   Dataset/train_temp.py   (BoxMatcher): pairs each row of               *)
(*       train_without_personID.csv with the first row of                  *)
(*       train_personID.csv of the same video and frame whose box is       *)
(*       within the tolerance, and writes train_temp.csv.                  *)
(*   Dataset/train_fixed.py  (IdentityPropagator): reads train_temp.csv,   *)
(*       sorts it by (video_name, int(frame_idx)) and gives every row      *)
(*       whose person_id is -1 a fresh identity, extended forward while    *)
(*       the box stays in place.                                           *)
(*   quality_control/iou_calculator.py  (IoUCalculator): the overlap       *)
(*       ratio of two boxes and of two time intervals, and the agreement   *)
(*       report of two annotation tables.                                  *)
(*   Dataset/json_extract_cumulative.py: the action_label of a VIA         *)
(*       annotation, from its attribute and option.                        *)
(*                                                                         *)
(* Encoding.  A CSV cell holding a number is the integer it denotes; a     *)
(* cell that int()/float() rejects is Malformed.  Coordinates are decimal  *)
(* texts with four places, held in units of 0.0001 (0.1 is 1000, the       *)
(* tolerance 0.005 is 50).  Video names are 1, 2, ... in their sort order. *)
(* train_temp holds the data rows; the header row that train_temp.py       *)
(* writes sits at Python index 0, so the data row at Python index k is     *)
(* train_temp[k] here.                                                     *)
(***************************************************************************)
EXTENDS Integers, Sequences, FiniteSets, TLC

VARIABLES
    pc,                      \* position in the two scripts
    train_personID,          \* train_temp.py:14  rows with identity
    train_without_personID,  \* train_temp.py:15  rows without identity
    dicts,                   \* train_temp.py:34  output rows of the matcher
    i,                       \* train_temp.py:39  rows of train_without_personID done
    train_temp,              \* train_fixed.py:4  rows being propagated over
    index,                   \* train_fixed.py:71 rows of train_temp done
    maxId,                   \* train_fixed.py:67
    videoName,               \* train_fixed.py:68
    fragment,                \* history: fragment[k] is the position of the seed
                             \* whose update_train_temp call wrote row k (0: none)
    box1, box2,              \* iou_calculator.py:13   arguments
    iou,                     \* iou_calculator.py:36   value returned
    time1, time2,            \* iou_calculator.py:43   arguments
    tiou,                    \* iou_calculator.py:63   value returned
    annotations1,            \* iou_calculator.py:82   arguments
    annotations2,
    video_name_arg,          \* iou_calculator.py:84   argument video_name
    matches,                 \* iou_calculator.py:89   the pairs found
    results,                 \* iou_calculator.py:129  value returned
    attributes,              \* json_extract_cumulative.py:62
    attribute_nums,          \* json_extract_cumulative.py:66
    csv_rows                 \* json_extract_cumulative.py:128 rows appended,
                             \* each with the attribute and option it is for

calcVars == <<box1, box2, iou, time1, time2, tiou>>

agreeVars == <<annotations1, annotations2, video_name_arg, matches, results>>

viaVars == <<attributes, attribute_nums, csv_rows>>

vars == <<pc, train_personID, train_without_personID, dicts, i,
          train_temp, index, maxId, videoName, fragment,
          box1, box2, iou, time1, time2, tiou,
          annotations1, annotations2, video_name_arg, matches, results,
          attributes, attribute_nums, csv_rows>>

(***************************************************************************)
(* Bounds of the model.                                                    *)
(***************************************************************************)
MaxWith == 2
MaxWithout == 2
MaxLen == 3

(***************************************************************************)
(* Program constants.                                                      *)
(***************************************************************************)
Tol == 50          \* 0.005, in units of 0.0001
Window == 10       \* range(1, 11): look-ahead offsets 1..10
FrameGap == 10     \* abs(next_frame - current_frame) > 10 stops the chain
Unassigned == 0 - 1   \* the person_id '-1' of an unresolved row
NoVideo == 0          \* videoName = '' before the first row
Malformed == 0 - 999  \* a cell on which int()/float() raises ValueError

IsNum(c) == c # Malformed

Abs(n) == IF n < 0 THEN 0 - n ELSE n

(***************************************************************************)
(* abs(float(a) - float(b)) < 0.005 on two decimal cells.  float() rounds  *)
(* each text to the nearest binary64, so a pair whose decimal difference   *)
(* is exactly 0.005 can give a computed difference just below the binary64 *)
(* 0.005 (0.005000000000000000104...).  RoundsBelow lists, among the       *)
(* coordinate values this model draws, the pairs at decimal distance       *)
(* exactly 0.005 for which that happens:                                   *)
(*   abs(float('0.105') - float('0.1')) = 0.0049999999999999906            *)
(*   abs(float('0.305') - float('0.3')) = 0.0050000000000000044            *)
(*   abs(float('0.095') - float('0.1')) = 0.0050000000000000044            *)
(*   abs(float('0.295') - float('0.3')) = 0.0050000000000000044            *)
(* At any other distance (a multiple of 0.0001) the rounding error, below  *)
(* 1e-15, cannot change the outcome of the comparison.                     *)
(***************************************************************************)
RoundsBelow == { <<1000, 1050>>, <<1050, 1000>> }

\* Variant: <= in place of <.
FloatDiffBelowTol_le(a, b) ==
    /\ IsNum(a)
    /\ IsNum(b)
    /\ Abs(a - b) <= Tol

FloatDiffBelowTol(a, b) ==
    /\ IsNum(a)
    /\ IsNum(b)
    /\ \/ Abs(a - b) < Tol
       \/ Abs(a - b) = Tol /\ <<a, b>> \in RoundsBelow

(***************************************************************************)
(* train_temp.py: the matching loop.                                       *)
(***************************************************************************)

\* Lines 50-53 (and train_fixed.py lines 56-57): the four coordinates.
SameBox(data, temp_data) ==
    /\ FloatDiffBelowTol(data.x1, temp_data.x1)
    /\ FloatDiffBelowTol(data.y1, temp_data.y1)
    /\ FloatDiffBelowTol(data.x2, temp_data.x2)
    /\ FloatDiffBelowTol(data.y2, temp_data.y2)

\* Variant: the frames are not compared.
Matches_any_frame(data, temp_data) ==
    /\ data.video_name = temp_data.video_name
    /\ IsNum(data.frame_idx)
    /\ IsNum(temp_data.frame_idx)
    /\ SameBox(data, temp_data)
    /\ IsNum(temp_data.person_id)

\* Lines 46-55 for one candidate: TRUE when the row is appended.  Any
\* ValueError (a malformed frame or coordinate of either row, a malformed
\* person_id of the candidate) is caught at line 60 and the scan continues,
\* as it does on a failed comparison.
Matches(data, temp_data) ==
    /\ data.video_name = temp_data.video_name
    /\ IsNum(data.frame_idx)
    /\ IsNum(temp_data.frame_idx)
    /\ data.frame_idx = temp_data.frame_idx
    /\ SameBox(data, temp_data)
    /\ IsNum(temp_data.person_id)

\* Variant: a candidate on which a cell fails to parse ends the scan.
isFind_break_on_error(data, personID) ==
    LET hits == {k \in 1..Len(personID) : Matches(data, personID[k])}
        errs == {k \in 1..Len(personID) :
                    /\ data.video_name = personID[k].video_name
                    /\ \E c \in {data.frame_idx, personID[k].frame_idx,
                                 data.x1, personID[k].x1} : ~IsNum(c)}
    IN  IF hits = {} THEN 0
        ELSE LET k == CHOOSE h \in hits : \A g \in hits : h <= g
             IN  IF \E e \in errs : e < k THEN 0 ELSE k

\* Variant: the last hit in place of the first.
isFind_last(data, personID) ==
    LET hits == {k \in 1..Len(personID) : Matches(data, personID[k])}
    IN  IF hits = {} THEN 0
        ELSE CHOOSE k \in hits : \A h \in hits : h <= k

\* The position of the candidate at which the inner loop breaks (0: it runs
\* to the end and isFind stays False).
isFind(data, personID) ==
    LET hits == {k \in 1..Len(personID) : Matches(data, personID[k])}
    IN  IF hits = {} THEN 0
        ELSE CHOOSE k \in hits : \A h \in hits : k <= h

\* Lines 54-55 and line 65: the row appended for data, with person_id p.
dict_entry(data, p) ==
    [video_name   |-> data.video_name,
     frame_idx    |-> data.frame_idx,
     x1 |-> data.x1, y1 |-> data.y1, x2 |-> data.x2, y2 |-> data.y2,
     action_label |-> data.action_label,
     person_id    |-> p]

\* Variant: an unmatched row with a malformed cell is dropped.
appended_numeric_only(data, personID) ==
    LET k == isFind(data, personID)
    IN  IF k # 0
        THEN <<dict_entry(data, personID[k].person_id - 1)>>
        ELSE IF IsNum(data.frame_idx) /\ IsNum(data.x1) /\ IsNum(data.y1)
                /\ IsNum(data.x2) /\ IsNum(data.y2)
        THEN <<dict_entry(data, Unassigned)>>
        ELSE <<>>

\* Lines 43-67: the rows one iteration of the outer loop appends to dicts.
appended(data, personID) ==
    LET k == isFind(data, personID)
    IN  IF k # 0
        THEN <<dict_entry(data, personID[k].person_id - 1)>>
        ELSE <<dict_entry(data, Unassigned)>>

\* Variant: a candidate that gave its identity is taken out of the list.
MatchStep_consuming ==
    /\ pc = "match"
    /\ i < Len(train_without_personID)
    /\ dicts' = dicts \o appended(train_without_personID[i + 1],
                                  train_personID)
    /\ i' = i + 1
    /\ LET k == isFind(train_without_personID[i + 1], train_personID)
       IN  train_personID' =
               IF k = 0 THEN train_personID
               ELSE SubSeq(train_personID, 1, k - 1)
                        \o SubSeq(train_personID, k + 1, Len(train_personID))
    /\ UNCHANGED <<pc, train_without_personID,
                   train_temp, index, maxId, videoName, fragment>>
    /\ UNCHANGED calcVars
    /\ UNCHANGED agreeVars
    /\ UNCHANGED viaVars

\* One iteration of the outer loop (lines 39-67).
MatchStep ==
    /\ pc = "match"
    /\ i < Len(train_without_personID)
    /\ dicts' = dicts \o appended(train_without_personID[i + 1],
                                  train_personID)
    /\ i' = i + 1
    /\ UNCHANGED <<pc, train_personID, train_without_personID,
                   train_temp, index, maxId, videoName, fragment>>
    /\ UNCHANGED calcVars
    /\ UNCHANGED agreeVars
    /\ UNCHANGED viaVars

\* Lines 74-77 of train_temp.py, then lines 5-8 of train_fixed.py: dicts is
\* written to train_temp.csv under a header, and read back.
WriteTemp ==
    /\ pc = "match"
    /\ i = Len(train_without_personID)
    /\ train_temp' = dicts
    /\ pc' = "load"
    /\ UNCHANGED <<train_personID, train_without_personID, dicts, i,
                   index, maxId, videoName, fragment>>
    /\ UNCHANGED calcVars
    /\ UNCHANGED agreeVars
    /\ UNCHANGED viaVars

(***************************************************************************)
(* train_fixed.py: the sort.                                               *)
(***************************************************************************)

\* Variant: a row goes before the rows of equal key.
KeyLess_le(r, s) ==
    \/ r.video_name < s.video_name
    \/ r.video_name = s.video_name /\ r.frame_idx <= s.frame_idx

\* Variant: the key is the frame alone.
KeyLess_frame_only(r, s) == r.frame_idx < s.frame_idx

\* key=lambda x: (x[0], int(x[1])): r sorts strictly before s.
KeyLess(r, s) ==
    \/ r.video_name < s.video_name
    \/ r.video_name = s.video_name /\ r.frame_idx < s.frame_idx

\* list.sort is stable: a row goes behind every row whose key is not larger.
RECURSIVE InsertRow(_, _)
InsertRow(rows, r) ==
    IF rows = <<>> THEN <<r>>
    ELSE IF KeyLess(r, Head(rows)) THEN <<r>> \o rows
    ELSE <<Head(rows)>> \o InsertRow(Tail(rows), r)

RECURSIVE SortFrom(_, _)
SortFrom(done, rest) ==
    IF rest = <<>> THEN done
    ELSE SortFrom(InsertRow(done, Head(rest)), Tail(rest))

data_rows_sorted(rows) == SortFrom(<<>>, rows)

\* Variant: the sort raises on an empty list as well.
SortRaises_on_empty(rows) ==
    \/ rows = <<>>
    \/ \E k \in 1..Len(rows) : ~IsNum(rows[k].frame_idx)

\* int(x[1]) of the sort key raises on every row it is computed for.
SortRaises(rows) == \E k \in 1..Len(rows) : ~IsNum(rows[k].frame_idx)

\* Lines 13-19.
SortRows ==
    /\ pc = "load"
    /\ ~SortRaises(train_temp)
    /\ train_temp' = data_rows_sorted(train_temp)
    /\ fragment' = [k \in 1..Len(train_temp) |-> 0]
    /\ index' = 0
    /\ maxId' = Unassigned
    /\ videoName' = NoVideo
    /\ pc' = "prop"
    /\ UNCHANGED <<train_personID, train_without_personID, dicts, i>>
    /\ UNCHANGED calcVars
    /\ UNCHANGED agreeVars
    /\ UNCHANGED viaVars

\* Line 18 when a frame_idx is not an integer: the ValueError is not caught
\* and the script ends without writing train.csv.
SortAbort ==
    /\ pc = "load"
    /\ SortRaises(train_temp)
    /\ pc' = "aborted"
    /\ UNCHANGED <<train_personID, train_without_personID, dicts, i,
                   train_temp, index, maxId, videoName, fragment>>
    /\ UNCHANGED calcVars
    /\ UNCHANGED agreeVars
    /\ UNCHANGED viaVars

(***************************************************************************)
(* train_fixed.py: update_train_temp and the main loop.                    *)
(***************************************************************************)

\* Lines 29-33: the seed's own coordinates and frame parse.
SeedParses(r) ==
    /\ IsNum(r.x1) /\ IsNum(r.y1) /\ IsNum(r.x2) /\ IsNum(r.y2)
    /\ IsNum(r.frame_idx)

\* Variant: >= in place of > in the frame-gap test.
RECURSIVE look_ahead_ge(_, _, _, _, _)
look_ahead_ge(rows, vName, idx, mId, offset) ==
    LET next_index == idx + offset IN
    IF offset > Window THEN rows
    ELSE IF next_index > Len(rows) THEN rows
    ELSE IF rows[next_index].video_name # vName THEN rows
    ELSE IF rows[next_index].person_id # Unassigned THEN rows
    ELSE IF ~IsNum(rows[next_index].frame_idx) THEN rows
    ELSE IF Abs(rows[next_index].frame_idx - rows[idx].frame_idx) >= FrameGap
         THEN rows
    ELSE IF SameBox(rows[idx], rows[next_index])
         THEN look_ahead_ge([rows EXCEPT ![next_index].person_id = mId + 1],
                            vName, idx, mId, offset + 1)
    ELSE rows

\* Variant: without the stop at a resolved row.
RECURSIVE look_ahead_overwrite(_, _, _, _, _)
look_ahead_overwrite(rows, vName, idx, mId, offset) ==
    LET next_index == idx + offset IN
    IF offset > Window THEN rows
    ELSE IF next_index > Len(rows) THEN rows
    ELSE IF rows[next_index].video_name # vName THEN rows
    ELSE IF ~IsNum(rows[next_index].frame_idx) THEN rows
    ELSE IF Abs(rows[next_index].frame_idx - rows[idx].frame_idx) > FrameGap
         THEN rows
    ELSE IF SameBox(rows[idx], rows[next_index])
         THEN look_ahead_overwrite(
                  [rows EXCEPT ![next_index].person_id = mId + 1],
                  vName, idx, mId, offset + 1)
    ELSE rows

\* Variant: without the stop at a row of another video.
RECURSIVE look_ahead_cross_video(_, _, _, _, _)
look_ahead_cross_video(rows, vName, idx, mId, offset) ==
    LET next_index == idx + offset IN
    IF offset > Window THEN rows
    ELSE IF next_index > Len(rows) THEN rows
    ELSE IF rows[next_index].person_id # Unassigned THEN rows
    ELSE IF ~IsNum(rows[next_index].frame_idx) THEN rows
    ELSE IF Abs(rows[next_index].frame_idx - rows[idx].frame_idx) > FrameGap
         THEN rows
    ELSE IF SameBox(rows[idx], rows[next_index])
         THEN look_ahead_cross_video(
                  [rows EXCEPT ![next_index].person_id = mId + 1],
                  vName, idx, mId, offset + 1)
    ELSE rows

\* Variant: a row that is not within the tolerance is passed over.
RECURSIVE look_ahead_skip_mismatch(_, _, _, _, _)
look_ahead_skip_mismatch(rows, vName, idx, mId, offset) ==
    LET next_index == idx + offset IN
    IF offset > Window THEN rows
    ELSE IF next_index > Len(rows) THEN rows
    ELSE IF rows[next_index].video_name # vName THEN rows
    ELSE IF rows[next_index].person_id # Unassigned THEN rows
    ELSE IF ~IsNum(rows[next_index].frame_idx) THEN rows
    ELSE IF Abs(rows[next_index].frame_idx - rows[idx].frame_idx) > FrameGap
         THEN rows
    ELSE IF SameBox(rows[idx], rows[next_index])
         THEN look_ahead_skip_mismatch(
                  [rows EXCEPT ![next_index].person_id = mId + 1],
                  vName, idx, mId, offset + 1)
    ELSE look_ahead_skip_mismatch(rows, vName, idx, mId, offset + 1)

\* Variant: a row is compared with the row before it.
RECURSIVE look_ahead_chain(_, _, _, _, _)
look_ahead_chain(rows, vName, idx, mId, offset) ==
    LET next_index == idx + offset IN
    IF offset > Window THEN rows
    ELSE IF next_index > Len(rows) THEN rows
    ELSE IF rows[next_index].video_name # vName THEN rows
    ELSE IF rows[next_index].person_id # Unassigned THEN rows
    ELSE IF ~IsNum(rows[next_index].frame_idx) THEN rows
    ELSE IF Abs(rows[next_index].frame_idx - rows[idx].frame_idx) > FrameGap
         THEN rows
    ELSE IF SameBox(rows[next_index - 1], rows[next_index])
         THEN look_ahead_chain(
                  [rows EXCEPT ![next_index].person_id = mId + 1],
                  vName, idx, mId, offset + 1)
    ELSE rows

\* Lines 37-64: the look-ahead from offset on; the rows are compared with
\* the seed row at position idx.
RECURSIVE look_ahead(_, _, _, _, _)
look_ahead(rows, vName, idx, mId, offset) ==
    LET next_index == idx + offset IN
    IF offset > Window THEN rows
    ELSE IF next_index > Len(rows) THEN rows
    ELSE IF rows[next_index].video_name # vName THEN rows
    ELSE IF rows[next_index].person_id # Unassigned THEN rows
    ELSE IF ~IsNum(rows[next_index].frame_idx) THEN rows
    ELSE IF Abs(rows[next_index].frame_idx - rows[idx].frame_idx) > FrameGap
         THEN rows
    ELSE IF SameBox(rows[idx], rows[next_index])
         THEN look_ahead([rows EXCEPT ![next_index].person_id = mId + 1],
                         vName, idx, mId, offset + 1)
    ELSE rows

\* Variant: the seed is parsed before it is labelled.
update_train_temp_parse_first(rows, vName, idx, mId) ==
    IF idx > Len(rows) THEN rows
    ELSE IF ~SeedParses(rows[idx]) THEN rows
    ELSE look_ahead([rows EXCEPT ![idx].person_id = mId + 1],
                    vName, idx, mId, 1)

\* Variant: the seed is labelled maxId in place of maxId + 1.
update_train_temp_maxId(rows, vName, idx, mId) ==
    IF idx > Len(rows) THEN rows
    ELSE LET seeded == [rows EXCEPT ![idx].person_id = mId]
         IN  IF ~SeedParses(rows[idx]) THEN seeded
             ELSE look_ahead(seeded, vName, idx, mId, 1)

\* Lines 23-64.
update_train_temp(rows, vName, idx, mId) ==
    IF idx > Len(rows) THEN rows
    ELSE LET seeded == [rows EXCEPT ![idx].person_id = mId + 1]
         IN  IF ~SeedParses(rows[idx]) THEN seeded
             ELSE look_ahead(seeded, vName, idx, mId, 1)

\* Variant: maxId is not reset at a video boundary.
maxIdOnEntry_no_reset(r) == maxId

\* Lines 76-78: maxId as the row at position idx is entered.
maxIdOnEntry(r) == IF videoName # r.video_name THEN Unassigned ELSE maxId

\* Variant: the person_id of the row is not taken into maxId.
Max_first(a, b) == a

Max(a, b) == IF a > b THEN a ELSE b

\* One iteration of the main loop (lines 71-95) on the row at index + 1.
PropStep ==
    /\ pc = "prop"
    /\ index < Len(train_temp)
    /\ LET idx  == index + 1
           data == train_temp[idx]
           m0   == maxIdOnEntry(data)
           m1   == Max(m0, data.person_id)
       IN  /\ videoName' = data.video_name
           /\ IF ~IsNum(data.person_id)
              THEN /\ maxId' = m0
                   /\ train_temp' = train_temp
              ELSE IF data.person_id = Unassigned
              THEN /\ train_temp' = update_train_temp(train_temp,
                                        data.video_name, idx, m1)
                   /\ maxId' = m1 + 1
              ELSE /\ maxId' = m1
                   /\ train_temp' = train_temp
           /\ fragment' = [k \in 1..Len(train_temp) |->
                             IF train_temp'[k] # train_temp[k] THEN idx
                             ELSE fragment[k]]
    /\ index' = index + 1
    /\ UNCHANGED <<pc, train_personID, train_without_personID, dicts, i>>
    /\ UNCHANGED calcVars
    /\ UNCHANGED agreeVars
    /\ UNCHANGED viaVars

\* Lines 67-95 as a function: the list after the main loop has gone over
\* the rows from position idx on, entered with videoName vName and maxId mId.
RECURSIVE main_loop(_, _, _, _)
main_loop(rows, idx, vName, mId) ==
    IF idx > Len(rows) THEN rows
    ELSE LET data == rows[idx]
             m0   == IF vName # data.video_name THEN Unassigned ELSE mId
             m1   == Max(m0, data.person_id)
         IN  IF ~IsNum(data.person_id)
             THEN main_loop(rows, idx + 1, data.video_name, m0)
             ELSE IF data.person_id = Unassigned
             THEN main_loop(update_train_temp(rows, data.video_name, idx, m1),
                            idx + 1, data.video_name, m1 + 1)
             ELSE main_loop(rows, idx + 1, data.video_name, m1)

\* Lines 9-100 as a function of the rows of train_temp.csv (none of which
\* makes the sort raise): the rows of train.csv.
train_csv(rows) == main_loop(data_rows_sorted(rows), 1, NoVideo, Unassigned)

\* Lines 97-100: train.csv is written.
Finish ==
    /\ pc = "prop"
    /\ index = Len(train_temp)
    /\ pc' = "done"
    /\ UNCHANGED <<train_personID, train_without_personID, dicts, i,
                   train_temp, index, maxId, videoName, fragment>>
    /\ UNCHANGED calcVars
    /\ UNCHANGED agreeVars
    /\ UNCHANGED viaVars

(***************************************************************************)
(* iou_calculator.py.  A box is <<x1, y1, x2, y2>> and an interval is       *)
(* <<start, end>>; a coordinate is a multiple of 1/4 and a time a whole    *)
(* number of seconds, held as the number of units.  On such values the     *)
(* differences, products and sums of the code are exact in binary64, and   *)
(* the one rounding, that of the final division, is a function of the      *)
(* quotient; the value returned is held as that quotient, a fraction       *)
(* <<n, d>> in lowest terms.  A cell that is not an int or a float is      *)
(* Malformed.                                                              *)
(***************************************************************************)
MaxCoord == 3
MaxTime == 7

Zero == <<0, 1>>   \* 0.0
One == <<1, 1>>    \* 1.0

Min(a, b) == IF a < b THEN a ELSE b

RECURSIVE GCD(_, _)
GCD(a, b) == IF b = 0 THEN a ELSE GCD(b, a % b)

\* Lines 36-37 and 63-64: max(0.0, min(1.0, n / d)), for d # 0.
clamped(n, d) ==
    IF n * d <= 0 THEN Zero
    ELSE IF Abs(n) >= Abs(d) THEN One
    ELSE LET g == GCD(Abs(n), Abs(d))
         IN  <<Abs(n) \div g, Abs(d) \div g>>

\* Lines 163-173; coordinates outside [0,1] only log a warning.
is_valid_box(box) ==
    /\ Len(box) = 4
    /\ \A c \in 1..4 : IsNum(box[c])
    /\ ~(box[1] >= box[3] \/ box[2] >= box[4])

\* Variant: the intersection is not taken off the sum of the two areas.
union_area_sum(box1_area, box2_area, intersection_area) ==
    box1_area + box2_area

\* Variant: the area of the first box in place of the union.
union_area_box1(box1_area, box2_area, intersection_area) == box1_area

\* Line 32.
union_area(box1_area, box2_area, intersection_area) ==
    box1_area + box2_area - intersection_area

\* Variant: the intersection is never found empty.
no_intersection_never(x1_inter, y1_inter, x2_inter, y2_inter) == FALSE

\* Line 26.
no_intersection(x1_inter, y1_inter, x2_inter, y2_inter) ==
    x1_inter >= x2_inter \/ y1_inter >= y2_inter

\* Lines 13-41.  A list that is not of length 4 raises at lines 15-16 and
\* the except of lines 39-41 returns 0.0.
calculate_spatial_iou(b1, b2) ==
    IF Len(b1) # 4 \/ Len(b2) # 4 THEN Zero
    ELSE IF ~is_valid_box(b1) \/ ~is_valid_box(b2) THEN Zero
    ELSE LET x1_inter == Max(b1[1], b2[1])
             y1_inter == Max(b1[2], b2[2])
             x2_inter == Min(b1[3], b2[3])
             y2_inter == Min(b1[4], b2[4])
             intersection_area ==
                 (x2_inter - x1_inter) * (y2_inter - y1_inter)
             box1_area == (b1[3] - b1[1]) * (b1[4] - b1[2])
             box2_area == (b2[3] - b2[1]) * (b2[4] - b2[2])
             union == union_area(box1_area, box2_area, intersection_area)
         IN  IF no_intersection(x1_inter, y1_inter, x2_inter, y2_inter)
             THEN Zero
             ELSE IF union = 0 THEN Zero
             ELSE clamped(intersection_area, union)

\* Variant: the two durations are added up.
union_duration_sum(duration1, duration2, intersection_duration) ==
    duration1 + duration2

\* Line 59.
union_duration(duration1, duration2, intersection_duration) ==
    duration1 + duration2 - intersection_duration

\* Lines 43-68.  A list that is not of length 2 raises at lines 45-46, a
\* cell that is not a number in a comparison or a difference further down;
\* the except of lines 66-68 returns 0.0.
calculate_temporal_iou(t1, t2) ==
    IF Len(t1) # 2 \/ Len(t2) # 2 THEN Zero
    ELSE IF \E c \in {t1[1], t1[2], t2[1], t2[2]} : ~IsNum(c) THEN Zero
    ELSE IF t1[1] >= t1[2] \/ t2[1] >= t2[2] THEN Zero
    ELSE LET intersection_start == Max(t1[1], t2[1])
             intersection_end   == Min(t1[2], t2[2])
             intersection_duration == intersection_end - intersection_start
             union == union_duration(t1[2] - t1[1], t2[2] - t2[1],
                                     intersection_duration)
         IN  IF intersection_start >= intersection_end THEN Zero
             ELSE IF union = 0 THEN Zero
             ELSE clamped(intersection_duration, union)

\* A call of calculate_spatial_iou.
SpatialIoU ==
    /\ pc = "spatial"
    /\ iou' = calculate_spatial_iou(box1, box2)
    /\ pc' = "returned"
    /\ UNCHANGED <<train_personID, train_without_personID, dicts, i,
                   train_temp, index, maxId, videoName, fragment,
                   box1, box2, time1, time2, tiou>>
    /\ UNCHANGED agreeVars
    /\ UNCHANGED viaVars

\* A call of calculate_temporal_iou.
TemporalIoU ==
    /\ pc = "temporal"
    /\ tiou' = calculate_temporal_iou(time1, time2)
    /\ pc' = "returned"
    /\ UNCHANGED <<train_personID, train_without_personID, dicts, i,
                   train_temp, index, maxId, videoName, fragment,
                   box1, box2, iou, time1, time2>>
    /\ UNCHANGED agreeVars
    /\ UNCHANGED viaVars

(***************************************************************************)
(* iou_calculator.py, calculate_annotation_agreement.  A frame is the list *)
(* of its rows; every frame has the columns video_name, timestamp, x1, y1, *)
(* x2, y2, action_label and person_id, and a cell of a box column is a     *)
(* number or Malformed (a non-numeric cell).  The statistics are exact     *)
(* fractions <<n, d>> in lowest terms.                                     *)
(***************************************************************************)
MaxAnn == 2

min_iou_threshold == <<1, 2>>   \* line 10: 0.5

Frac(n, d) ==
    LET g == GCD(Abs(n), Abs(d))
    IN  IF d < 0 THEN <<(0 - n) \div g, (0 - d) \div g>>
        ELSE <<n \div g, d \div g>>

FracAdd(a, b) == Frac(a[1] * b[2] + b[1] * a[2], a[2] * b[2])
FracSub(a, b) == Frac(a[1] * b[2] - b[1] * a[2], a[2] * b[2])
FracMul(a, b) == Frac(a[1] * b[1], a[2] * b[2])
FracLess(a, b) == a[1] * b[2] < b[1] * a[2]

RECURSIVE FracSum(_)
FracSum(scores) ==
    IF scores = <<>> THEN Zero
    ELSE FracAdd(scores[1], FracSum(Tail(scores)))

\* Variant: the sum of the scores, not divided by their number.
np_mean_sum(scores) == FracSum(scores)

\* np.mean of a list that is not empty.
np_mean(scores) == FracMul(FracSum(scores), <<1, Len(scores)>>)

RECURSIVE FracInsert(_, _)
FracInsert(sorted, x) ==
    IF sorted = <<>> THEN <<x>>
    ELSE IF FracLess(x, sorted[1]) THEN <<x>> \o sorted
    ELSE <<sorted[1]>> \o FracInsert(Tail(sorted), x)

RECURSIVE FracSort(_)
FracSort(scores) ==
    IF scores = <<>> THEN <<>>
    ELSE FracInsert(FracSort(Tail(scores)), scores[1])

\* np.median of a list that is not empty.
np_median(scores) ==
    LET sorted == FracSort(scores)
        n      == Len(scores)
    IN  IF n % 2 = 1 THEN sorted[(n + 1) \div 2]
        ELSE FracMul(FracAdd(sorted[n \div 2], sorted[n \div 2 + 1]),
                     <<1, 2>>)

\* The square of np.std of a list that is not empty (the variance, which is
\* a fraction where the deviation need not be).
np_std_squared(scores) ==
    LET m == np_mean(scores)
    IN  np_mean([k \in 1..Len(scores) |->
                     FracMul(FracSub(scores[k], m), FracSub(scores[k], m))])

\* Lines 86-88; None and '' are both NoVideo.
filtered(annotations, video_name) ==
    IF video_name # NoVideo
    THEN SelectSeq(annotations, LAMBDA r : r.video_name = video_name)
    ELSE annotations

\* Variant: the person is not looked at.
mask_without_person(row2, row1) ==
    /\ row2.video_name = row1.video_name
    /\ row2.timestamp = row1.timestamp

\* Lines 91-95.
mask(row2, row1) ==
    /\ row2.video_name = row1.video_name
    /\ row2.timestamp = row1.timestamp
    /\ row2.person_id = row1.person_id

\* Line 96.
matching_rows(frame2, row1) ==
    SelectSeq(frame2, LAMBDA row2 : mask(row2, row1))

\* Lines 98-116 for row1 and the first of its matching rows.
match(row1, row2) ==
    LET b1 == <<row1.x1, row1.y1, row1.x2, row1.y2>>
        b2 == <<row2.x1, row2.y1, row2.x2, row2.y2>>
    IN  [video_name  |-> row1.video_name,
         timestamp   |-> row1.timestamp,
         person_id   |-> row1.person_id,
         spatial_iou |-> calculate_spatial_iou(b1, b2),
         label_match |-> row1.action_label = row2.action_label,
         box1        |-> b1,
         box2        |-> b2]

\* Lines 89-116: the loop over the rows of the first frame.
RECURSIVE find_matches(_, _)
find_matches(frame1, frame2) ==
    IF frame1 = <<>> THEN <<>>
    ELSE LET row1 == frame1[1]
             rows == matching_rows(frame2, row1)
         IN  (IF Len(rows) > 0 THEN <<match(row1, rows[1])>> ELSE <<>>)
                 \o find_matches(Tail(frame1), frame2)

\* Lines 117-139 for the list of matches.
report(found) ==
    IF found = <<>>
    THEN [mean_spatial_iou   |-> Zero,
          median_spatial_iou |-> Zero,
          label_accuracy     |-> Zero,
          total_matches      |-> 0,
          high_iou_matches   |-> 0]
    ELSE LET iou_scores    == [k \in 1..Len(found) |-> found[k].spatial_iou]
             label_matches == [k \in 1..Len(found) |->
                                  IF found[k].label_match THEN One ELSE Zero]
         IN  [mean_spatial_iou   |-> np_mean(iou_scores),
              median_spatial_iou |-> np_median(iou_scores),
              std_spatial_iou    |-> np_std_squared(iou_scores),
              label_accuracy     |-> np_mean(label_matches),
              total_matches      |-> Len(found),
              high_iou_matches   |->
                  Cardinality({k \in 1..Len(found) :
                      ~FracLess(found[k].spatial_iou, min_iou_threshold)}),
              low_iou_samples    |->
                  SelectSeq(found, LAMBDA m :
                      FracLess(m.spatial_iou, min_iou_threshold))]

\* Lines 82-143.  Nothing raises on frames that have every column, so the
\* except of lines 141-143 is not entered.
calculate_annotation_agreement(frame1, frame2, video_name) ==
    report(find_matches(filtered(frame1, video_name),
                        filtered(frame2, video_name)))

Agreement ==
    /\ pc = "agreement"
    /\ matches' = find_matches(filtered(annotations1, video_name_arg),
                               filtered(annotations2, video_name_arg))
    /\ results' = calculate_annotation_agreement(annotations1, annotations2,
                                                 video_name_arg)
    /\ pc' = "reported"
    /\ UNCHANGED <<train_personID, train_without_personID, dicts, i,
                   train_temp, index, maxId, videoName, fragment,
                   annotations1, annotations2, video_name_arg>>
    /\ UNCHANGED calcVars
    /\ UNCHANGED viaVars

(***************************************************************************)
(* json_extract_cumulative.py.  The attribute table of a VIA file maps an  *)
(* attribute id (the keys "1", "2", ...) to the number of its options, or  *)
(* to NoOptions for an attribute without an 'options' entry; an option is  *)
(* its key 0, 1, ...                                                       *)
(***************************************************************************)
MaxAttr == 3
MaxOptions == 2
MaxAnnot == 2

NoOptions == 0 - 1

\* Lines 38-46 over the attribute ids not yet visited, in ascending order.
RECURSIVE cumulative_from(_, _, _)
cumulative_from(attrs, ids, nums) ==
    IF ids = {} THEN nums
    ELSE LET attr_id == CHOOSE a \in ids : \A b \in ids : a <= b
             rest    == ids \ {attr_id}
         IN  IF attrs[attr_id] = NoOptions
             THEN cumulative_from(attrs, rest, nums)
             ELSE cumulative_from(attrs, rest,
                      Append(nums, nums[Len(nums)] + attrs[attr_id]))

\* Lines 32-47.
calculate_cumulative_action_mapping(attrs) ==
    cumulative_from(attrs, DOMAIN attrs, <<0>>)

\* Lines 121-125; nums[k + 1] is attribute_nums[k].  Attribute ids are at
\* least 1, so attr_index is not negative.
action_id(nums, attribute_id, av) ==
    LET attr_index == attribute_id - 1
    IN  IF attr_index < Len(nums) - 1
        THEN nums[attr_index + 1] + av + 1
        ELSE av + 1

\* Line 66.
ViaMapping ==
    /\ pc = "via"
    /\ attribute_nums' = calculate_cumulative_action_mapping(attributes)
    /\ pc' = "via_rows"
    /\ UNCHANGED <<train_personID, train_without_personID, dicts, i,
                   train_temp, index, maxId, videoName, fragment,
                   attributes, csv_rows>>
    /\ UNCHANGED calcVars
    /\ UNCHANGED agreeVars

\* Lines 97-128 for one option av of one attribute of an annotation.
ViaAnnotation ==
    /\ pc = "via_rows"
    /\ Len(csv_rows) < MaxAnnot
    /\ \E attribute_id \in DOMAIN attributes :
           /\ attributes[attribute_id] # NoOptions
           /\ \E av \in 0..(attributes[attribute_id] - 1) :
                  csv_rows' = Append(csv_rows,
                      [attribute_id |-> attribute_id,
                       av           |-> av,
                       action_id    |-> action_id(attribute_nums,
                                                  attribute_id, av)])
    /\ UNCHANGED <<pc, train_personID, train_without_personID, dicts, i,
                   train_temp, index, maxId, videoName, fragment,
                   attributes, attribute_nums>>
    /\ UNCHANGED calcVars
    /\ UNCHANGED agreeVars

(***************************************************************************)
(* Inputs.                                                                 *)
(***************************************************************************)
SeqsUpTo(S, n) == UNION {[1..k -> S] : k \in 0..n}

Row(v, f, b, a, p) ==
    [video_name |-> v, frame_idx |-> f,
     x1 |-> b[1], y1 |-> b[2], x2 |-> b[3], y2 |-> b[4],
     action_label |-> a, person_id |-> p]

WithRow(v, f, b, p) ==
    [video_name |-> v, frame_idx |-> f,
     x1 |-> b[1], y1 |-> b[2], x2 |-> b[3], y2 |-> b[4], person_id |-> p]

WithoutRow(v, f, b, a) ==
    [video_name |-> v, frame_idx |-> f,
     x1 |-> b[1], y1 |-> b[2], x2 |-> b[3], y2 |-> b[4], action_label |-> a]

BoxA    == <<1000, 1000, 3000, 3000>>   \* 0.1, 0.1, 0.3, 0.3
BoxA49  == <<1049, 1049, 3049, 3049>>   \* every coordinate 0.0049 off BoxA
BoxB    == <<5000, 5000, 7000, 7000>>   \* far from BoxA
BoxBad  == <<Malformed, 1000, 3000, 3000>>

\* train_personID.csv: rows of video 1, frame 2, with person_id -1, 0 or 1,
\* and one row whose frame_idx does not parse.
WithRows ==
    {WithRow(1, 2, b, p) : b \in {BoxA, BoxA49, BoxBad}, p \in (0 - 1)..1}
        \cup {WithRow(1, Malformed, BoxA, 1)}

\* train_without_personID.csv: the row (video 1, frame 2, BoxA) and the
\* rows that differ from it in one field.
WithoutRows ==
    {WithoutRow(1, 2, BoxA, 7), WithoutRow(1, 3, BoxA, 7),
     WithoutRow(2, 2, BoxA, 7), WithoutRow(1, 2, BoxB, 7),
     WithoutRow(1, Malformed, BoxA, 7), WithoutRow(1, 2, BoxBad, 7)}

\* train_temp.csv as train_fixed.py may find it: rows of two videos, at
\* frames 10 and 11 apart, with two boxes, unresolved or resolved (0, 1, and
\* the -2 the matcher emits for a source person_id -1), and two rows with a
\* cell that does not parse.
TempRows ==
    {Row(1, f, b, 7, p) : f \in {2, 12, 13}, b \in {BoxA, BoxB},
                          p \in (0 - 1)..0}
        \cup {Row(2, 2, b, 7, p) : b \in {BoxA, BoxB}, p \in (0 - 1)..0}
        \cup {Row(1, 12, BoxA, 7, 1), Row(1, 2, BoxB, 7, 0 - 2)}
        \cup {Row(1, Malformed, BoxA, 7, Unassigned),
              Row(1, 2, BoxBad, 7, Unassigned)}

NoCall ==
    /\ box1 = <<>>
    /\ box2 = <<>>
    /\ iou = <<>>
    /\ time1 = <<>>
    /\ time2 = <<>>
    /\ tiou = <<>>

NoReport ==
    /\ annotations1 = <<>>
    /\ annotations2 = <<>>
    /\ video_name_arg = NoVideo
    /\ matches = <<>>
    /\ results = <<>>

NoVia ==
    /\ attributes = <<>>
    /\ attribute_nums = <<>>
    /\ csv_rows = <<>>

InitCommon ==
    /\ dicts = <<>>
    /\ i = 0
    /\ index = 0
    /\ maxId = Unassigned
    /\ videoName = NoVideo
    /\ fragment = <<>>
    /\ NoReport
    /\ NoVia

\* Both scripts, one after the other.
Init ==
    /\ pc = "match"
    /\ train_personID \in SeqsUpTo(WithRows, MaxWith)
    /\ train_without_personID \in SeqsUpTo(WithoutRows, MaxWithout)
    /\ train_temp = <<>>
    /\ InitCommon
    /\ NoCall

Next ==
    \/ MatchStep
    \/ WriteTemp
    \/ SortRows
    \/ SortAbort
    \/ PropStep
    \/ Finish

Spec == Init /\ [][Next]_vars

\* train_fixed.py alone, over any train_temp.csv.
InitProp ==
    /\ pc = "load"
    /\ train_personID = <<>>
    /\ train_without_personID = <<>>
    /\ train_temp \in SeqsUpTo(TempRows, MaxLen)
    /\ InitCommon
    /\ NoCall

NextProp ==
    \/ SortRows
    \/ SortAbort
    \/ PropStep
    \/ Finish

SpecProp == InitProp /\ [][NextProp]_vars

\* The tolerance test alone: one row with BoxA and one row whose coordinates
\* are each 0, 0.0049 or 0.005 off BoxA's, either as the matcher's candidate
\* (same video and frame) or as the next row of the propagator's seed.
TolDeltas == {0 - Tol, 1 - Tol, 0, Tol - 1, Tol}

TolBoxes ==
    {<<BoxA[1] + a, BoxA[2] + b, BoxA[3] + c, BoxA[4] + d>> :
         a \in TolDeltas, b \in TolDeltas, c \in TolDeltas, d \in TolDeltas}

InitTol ==
    /\ pc = "match"
    /\ train_temp = <<>>
    /\ InitCommon
    /\ NoCall
    /\ \E b \in TolBoxes :
           \/ /\ train_personID = <<WithRow(1, 2, b, 1)>>
              /\ train_without_personID = <<WithoutRow(1, 2, BoxA, 7)>>
           \/ /\ train_personID = <<>>
              /\ train_without_personID =
                     <<WithoutRow(1, 2, BoxA, 7), WithoutRow(1, 3, b, 7)>>

NextTol ==
    \/ MatchStep
    \/ WriteTemp
    \/ SortRows
    \/ PropStep
    \/ Finish

SpecTol == InitTol /\ [][NextTol]_vars

\* train_fixed.py alone, with the file it read kept aside: dicts holds the
\* rows of train_temp.csv as train_temp.py:77 wrote them.
InitFile ==
    /\ pc = "load"
    /\ train_personID = <<>>
    /\ train_without_personID = <<>>
    /\ train_temp \in SeqsUpTo(TempRows, MaxLen)
    /\ dicts = train_temp
    /\ i = 0
    /\ index = 0
    /\ maxId = Unassigned
    /\ videoName = NoVideo
    /\ fragment = <<>>
    /\ NoReport
    /\ NoVia
    /\ NoCall

SpecFile == InitFile /\ [][NextProp]_vars

\* train_fixed.py on one long run of unresolved rows of video 1: all in
\* frame 2 with BoxA ("same"), in successive frames with BoxA ("step"), or
\* in successive frames with a box that moves 0.0049 per row ("drift"); one
\* row of the run may be replaced by a row with another box, a resolved
\* row, a row far ahead or a row of video 2.
MaxRun == 12

Shapes == {"same", "step", "drift"}

BoxDrift(j) ==
    <<BoxA[1] + (Tol - 1) * (j - 1), BoxA[2] + (Tol - 1) * (j - 1),
      BoxA[3] + (Tol - 1) * (j - 1), BoxA[4] + (Tol - 1) * (j - 1)>>

RunRow(j, shape) ==
    Row(1,
        IF shape = "same" THEN 2 ELSE 1 + j,
        IF shape = "drift" THEN BoxDrift(j) ELSE BoxA,
        7, Unassigned)

Breakers ==
    {Row(1, 2, BoxB, 7, Unassigned), Row(1, 2, BoxA, 7, 0),
     Row(1, 30, BoxA, 7, Unassigned), Row(2, 2, BoxA, 7, Unassigned)}

RunList(n, k, b, shape) ==
    [j \in 1..n |-> IF j = k THEN b ELSE RunRow(j, shape)]

RunLists ==
    {RunList(n, k, b, shape) :
         n \in 1..MaxRun, k \in 0..MaxRun, b \in Breakers, shape \in Shapes}

InitWindow ==
    /\ pc = "load"
    /\ train_personID = <<>>
    /\ train_without_personID = <<>>
    /\ train_temp \in RunLists
    /\ dicts = train_temp
    /\ i = 0
    /\ index = 0
    /\ maxId = Unassigned
    /\ videoName = NoVideo
    /\ fragment = <<>>
    /\ NoReport
    /\ NoVia
    /\ NoCall

NextWindow ==
    \/ SortRows
    \/ PropStep
    \/ Finish

SpecWindow == InitWindow /\ [][NextWindow]_vars

\* The arguments of the calculator: every box and interval on the grid,
\* degenerate ones included, a list that is too short and a list with a
\* cell that is not a number.
BoxShort == <<0, 0, 1>>
BoxNonNumeric == <<Malformed, 0, 1, 1>>

Boxes == [1..4 -> 0..MaxCoord] \cup {BoxShort, BoxNonNumeric}

TimeShort == <<0>>
TimeNonNumeric == <<0, Malformed>>

Times == [1..2 -> 0..MaxTime] \cup {TimeShort, TimeNonNumeric}

InitIoU ==
    /\ train_personID = <<>>
    /\ train_without_personID = <<>>
    /\ train_temp = <<>>
    /\ InitCommon
    /\ iou = <<>>
    /\ tiou = <<>>
    /\ \/ /\ pc = "spatial"
          /\ box1 \in Boxes
          /\ box2 \in Boxes
          /\ time1 = <<>>
          /\ time2 = <<>>
       \/ /\ pc = "temporal"
          /\ time1 \in Times
          /\ time2 \in Times
          /\ box1 = <<>>
          /\ box2 = <<>>

NextIoU ==
    \/ SpatialIoU
    \/ TemporalIoU

SpecIoU == InitIoU /\ [][NextIoU]_vars

\* The attribute tables: any set of ids among 1..MaxAttr, each attribute
\* with 1..MaxOptions options or without options.
AttributeTables ==
    UNION {[ids -> {NoOptions} \cup 1..MaxOptions] :
               ids \in SUBSET (1..MaxAttr)}

InitVia ==
    /\ pc = "via"
    /\ train_personID = <<>>
    /\ train_without_personID = <<>>
    /\ train_temp = <<>>
    /\ dicts = <<>>
    /\ i = 0
    /\ index = 0
    /\ maxId = Unassigned
    /\ videoName = NoVideo
    /\ fragment = <<>>
    /\ NoCall
    /\ NoReport
    /\ attributes \in AttributeTables
    /\ attribute_nums = <<>>
    /\ csv_rows = <<>>

NextVia ==
    \/ ViaMapping
    \/ ViaAnnotation

SpecVia == InitVia /\ [][NextVia]_vars

\* The rows of the two frames: a row, a row of the same person with another
\* box and another label, one with a box of no width, one with a
\* non-numeric coordinate, and rows that differ from the first in the
\* video, the timestamp or the person only.
AnnRow(v, t, p, box, label) ==
    [video_name |-> v, timestamp |-> t, person_id |-> p,
     x1 |-> box[1], y1 |-> box[2], x2 |-> box[3], y2 |-> box[4],
     action_label |-> label]

AnnRows ==
    {AnnRow(1, 1, 1, <<0, 0, 2, 2>>, 1),
     AnnRow(1, 1, 1, <<0, 0, 2, 3>>, 2),
     AnnRow(1, 1, 1, <<1, 1, 1, 2>>, 1),
     AnnRow(1, 1, 1, BoxNonNumeric, 1),
     AnnRow(2, 1, 1, <<0, 0, 2, 2>>, 1),
     AnnRow(1, 2, 1, <<0, 0, 2, 2>>, 1),
     AnnRow(1, 1, 2, <<0, 0, 2, 2>>, 1)}

Frames == SeqsUpTo(AnnRows, MaxAnn)

InitAgree ==
    /\ pc = "agreement"
    /\ train_personID = <<>>
    /\ train_without_personID = <<>>
    /\ train_temp = <<>>
    /\ dicts = <<>>
    /\ i = 0
    /\ index = 0
    /\ maxId = Unassigned
    /\ videoName = NoVideo
    /\ fragment = <<>>
    /\ NoCall
    /\ NoVia
    /\ annotations1 \in Frames
    /\ annotations2 \in Frames
    /\ video_name_arg \in {NoVideo, 1, 2}
    /\ matches = <<>>
    /\ results = <<>>

NextAgree == Agreement

SpecAgree == InitAgree /\ [][NextAgree]_vars

(***************************************************************************)
(* Properties.  The tests below are written on the cells of the rows, not  *)
(* with the operators of the model.                                        *)
(***************************************************************************)

\* r is row d of train_without_personID with a person_id added.
SameDetection(r, d) ==
    /\ r.video_name = d.video_name
    /\ r.frame_idx = d.frame_idx
    /\ r.x1 = d.x1 /\ r.y1 = d.y1 /\ r.x2 = d.x2 /\ r.y2 = d.y2
    /\ r.action_label = d.action_label

\* Both cells are numbers less than the tolerance apart.
Within(a, b) ==
    /\ a # Malformed
    /\ b # Malformed
    /\ a - b < Tol
    /\ b - a < Tol

\* Same video, same frame and the four coordinates within the tolerance.
SameVideoFrameBox(d, t) ==
    /\ d.video_name = t.video_name
    /\ d.frame_idx # Malformed
    /\ d.frame_idx = t.frame_idx
    /\ Within(d.x1, t.x1) /\ Within(d.y1, t.y1)
    /\ Within(d.x2, t.x2) /\ Within(d.y2, t.y2)

Candidates(d) ==
    {j \in 1..Len(train_personID) : SameVideoFrameBox(d, train_personID[j])}

MinOf(S) == CHOOSE m \in S : \A x \in S : m <= x

MaxOf(S) == CHOOSE m \in S : \A x \in S : x <= m

HasMalformedCell(d) ==
    \/ d.frame_idx = Malformed
    \/ Malformed \in {d.x1, d.y1, d.x2, d.y2}

\* C1: the matcher emits exactly one row per row of train_without_personID,
\* in the same order: row k of dicts is row k of the input with a person_id,
\* and once the loop has ended dicts is as long as the input, malformed and
\* unmatched rows included.
C1_CountPreserved ==
    /\ Len(dicts) = i
    /\ pc # "match" => Len(dicts) = Len(train_without_personID)
    /\ \A k \in 1..Len(dicts) :
           SameDetection(dicts[k], train_without_personID[k])

C1_Witness ==
    /\ pc = "load"
    /\ Len(train_without_personID) = MaxWithout
    /\ Len(dicts) = MaxWithout
    /\ HasMalformedCell(train_without_personID[1])
    /\ dicts[1].person_id = Unassigned
    /\ dicts[MaxWithout].person_id = 0

\* C4: when some row of train_personID has the video, the frame and (within
\* the tolerance) the box of row k of train_without_personID, row k is
\* emitted with the person_id of the first such row, minus one.
C4_FirstMatchWins ==
    \A k \in 1..Len(dicts) :
        LET cand == Candidates(train_without_personID[k])
        IN  cand # {} =>
                dicts[k].person_id = train_personID[MinOf(cand)].person_id - 1

\* Two candidates, the first 0.0049 off and the second exact, with different
\* identities: the first one gave its identity.
C4_Witness ==
    /\ Len(dicts) >= 1
    /\ Len(train_personID) >= 2
    /\ Candidates(train_without_personID[1]) = {1, 2}
    /\ train_personID[1].x1 # train_without_personID[1].x1
    /\ train_personID[2].x1 = train_without_personID[1].x1
    /\ train_personID[1].person_id = 1
    /\ train_personID[2].person_id = 0
    /\ dicts[1].person_id = 0

\* C5: when no row of train_personID has the video, exactly the frame and
\* (within the tolerance) the box of row k of train_without_personID, row k
\* is emitted with person_id -1.
C5_NoMatchUnassigned ==
    \A k \in 1..Len(dicts) :
        Candidates(train_without_personID[k]) = {} =>
            dicts[k].person_id = Unassigned

\* A row whose box is matched only in the neighbouring frame, and a row whose
\* box is matched only in another video, both emitted with -1.
C5_Witness ==
    /\ Len(dicts) = 2
    /\ Len(train_personID) >= 1
    /\ train_personID[1].person_id = 1
    /\ train_personID[1].frame_idx = 2
    /\ train_personID[1].video_name = 1
    /\ train_without_personID[1].frame_idx = 3
    /\ train_without_personID[1].video_name = 1
    /\ train_without_personID[2].frame_idx = 2
    /\ train_without_personID[2].video_name = 2
    /\ \A k \in 1..2 :
           /\ Within(train_without_personID[k].x1, train_personID[1].x1)
           /\ Within(train_without_personID[k].y1, train_personID[1].y1)
           /\ Within(train_without_personID[k].x2, train_personID[1].x2)
           /\ Within(train_without_personID[k].y2, train_personID[1].y2)
           /\ dicts[k].person_id = Unassigned

\* The positions at which the main loop called update_train_temp so far.
Seeds == {s \in 1..Len(fragment) : fragment[s] = s}

Propagating == pc \in {"prop", "done"}

SameVideo(j, k) == train_temp[j].video_name = train_temp[k].video_name

FrameDistance(j, k) ==
    IF train_temp[j].frame_idx < train_temp[k].frame_idx
    THEN train_temp[k].frame_idx - train_temp[j].frame_idx
    ELSE train_temp[j].frame_idx - train_temp[k].frame_idx

BoxWithin(j, k) ==
    /\ Within(train_temp[j].x1, train_temp[k].x1)
    /\ Within(train_temp[j].y1, train_temp[k].y1)
    /\ Within(train_temp[j].x2, train_temp[k].x2)
    /\ Within(train_temp[j].y2, train_temp[k].y2)

\* C2: once the pass has gone over a row its person_id is not -1, so that
\* the list written at the end holds no person_id -1.
C2_TotalResolution ==
    /\ pc = "prop" =>
           \A k \in 1..index : train_temp[k].person_id # Unassigned
    /\ pc = "done" =>
           \A k \in 1..Len(train_temp) :
               train_temp[k].person_id # Unassigned

\* The pass has ended over a full list with an isolated seed (one that
\* labelled no other row), a seed whose coordinates do not parse, or both,
\* and a row labelled by look-ahead.
C2_Witness ==
    /\ pc = "done"
    /\ Len(train_temp) = MaxLen
    /\ \E s \in Seeds : \A k \in 1..Len(train_temp) :
           k # s => fragment[k] # s
    /\ \E k \in 1..Len(train_temp) : fragment[k] \notin {0, k}

\* C6 as stated: in each video the seeds get 0, 1, 2, ... in seed order.
C6_SeedsCountFromZero ==
    Propagating =>
        \A s \in Seeds :
            train_temp[s].person_id =
                Cardinality({q \in Seeds : q < s /\ SameVideo(q, s)})

\* C6 as amended: a seed gets one more than the largest person_id of the
\* rows of its video before it (0 when none is resolved), whatever the other
\* videos hold; when every row of its video before it was labelled by the
\* pass itself, that is the number of seeds of its video before it.
C6_SeedsFollowRunningMax ==
    Propagating =>
        \A s \in Seeds :
            LET earlier == {q \in 1..(s - 1) : SameVideo(q, s)}
            IN  /\ train_temp[s].person_id =
                       MaxOf({Unassigned} \cup
                             {train_temp[q].person_id : q \in earlier}) + 1
                /\ (\A q \in earlier : fragment[q] # 0) =>
                       train_temp[s].person_id =
                           Cardinality({q \in Seeds : q \in earlier})

\* Two seeds in one video numbered 0 and 1, and a seed in the next video
\* numbered 0 again.
C6_Witness ==
    /\ pc = "done"
    /\ \E s \in Seeds, r \in Seeds, t \in Seeds :
           /\ s < r /\ r < t
           /\ SameVideo(s, r) /\ ~SameVideo(r, t)
           /\ train_temp[s].person_id = 0
           /\ train_temp[r].person_id = 1
           /\ train_temp[t].person_id = 0

\* C7: in the final list no row of a seed's video outside the seed's
\* fragment has the seed's person_id.
C7_SeedIdentityIsNew ==
    pc = "done" =>
        \A s \in Seeds : \A k \in 1..Len(train_temp) :
            (SameVideo(k, s) /\ fragment[k] # s) =>
                train_temp[k].person_id # train_temp[s].person_id

\* C9: in the step that seeds the row at index + 1 (its box and frame
\* parse), the next row, when it is unresolved, of the same video, at most 10
\* frames away and within the tolerance of the seed's box, gets the seed's
\* person_id; no row of the video more than 10 frames away is written.
C9_LookAhead ==
    [][(/\ pc = "prop"
        /\ index < Len(train_temp)
        /\ train_temp[index + 1].person_id = Unassigned
        /\ ~HasMalformedCell(train_temp[index + 1]))
       => LET s == index + 1 IN
          /\ Len(train_temp') = Len(train_temp)
          /\ (/\ s + 1 <= Len(train_temp)
              /\ SameVideo(s + 1, s)
              /\ train_temp[s + 1].person_id = Unassigned
              /\ FrameDistance(s + 1, s) <= 10
              /\ BoxWithin(s + 1, s))
             => train_temp'[s + 1].person_id = train_temp'[s].person_id
          /\ \A n \in (s + 1)..Len(train_temp) :
                 (SameVideo(n, s) /\ FrameDistance(n, s) > 10)
                     => train_temp'[n].person_id = train_temp[n].person_id
      ]_vars

\* A seed labelled the next row, exactly 10 frames away, and a later row of
\* the video with the same box, more than 10 frames from the seed, was left
\* to become a seed itself.
C9_Witness ==
    /\ Propagating
    /\ \E s \in Seeds :
           /\ s + 2 <= Len(train_temp)
           /\ fragment[s + 1] = s
           /\ FrameDistance(s + 1, s) = 10
           /\ SameVideo(s + 2, s)
           /\ BoxWithin(s + 2, s)
           /\ FrameDistance(s + 2, s) > 10
           /\ fragment[s + 2] = s + 2
           /\ train_temp[s + 2].person_id # train_temp[s].person_id

\* C10: a step of the pass changes a row only by giving a person_id to a row
\* whose person_id is -1 and that lies at or after the position processed.
C10_WritesOnlyUnassigned ==
    [][pc = "prop" =>
          /\ Len(train_temp') = Len(train_temp)
          /\ \A k \in 1..Len(train_temp) :
                 train_temp'[k] # train_temp[k] =>
                     /\ train_temp[k].person_id = Unassigned
                     /\ train_temp'[k].person_id # Unassigned
                     /\ k > index
                     /\ train_temp'[k] =
                            [train_temp[k] EXCEPT
                                 !.person_id = train_temp'[k].person_id]
      ]_vars

\* A seed was followed, in its video and within 10 frames, by a row with its
\* box that was resolved on input: that row was never written.
C10_Witness ==
    /\ pc = "done"
    /\ \E s \in Seeds :
           /\ s + 1 <= Len(train_temp)
           /\ SameVideo(s + 1, s)
           /\ BoxWithin(s + 1, s)
           /\ FrameDistance(s + 1, s) <= 10
           /\ fragment[s + 1] = 0
           /\ train_temp[s + 1].person_id = 0

SomeCoordinateAtTol(d, t) ==
    \/ d.x1 - t.x1 \in {Tol, 0 - Tol}
    \/ d.y1 - t.y1 \in {Tol, 0 - Tol}
    \/ d.x2 - t.x2 \in {Tol, 0 - Tol}
    \/ d.y2 - t.y2 \in {Tol, 0 - Tol}

AllCoordinatesWithin(d, t) ==
    /\ Within(d.x1, t.x1) /\ Within(d.y1, t.y1)
    /\ Within(d.x2, t.x2) /\ Within(d.y2, t.y2)

\* Some coordinate differs by exactly the tolerance and its binary64
\* difference is not below the binary64 0.005.
SomeCoordinateAtTolComputed(d, t) ==
    \/ d.x1 - t.x1 \in {Tol, 0 - Tol} /\ <<d.x1, t.x1>> \notin RoundsBelow
    \/ d.y1 - t.y1 \in {Tol, 0 - Tol} /\ <<d.y1, t.y1>> \notin RoundsBelow
    \/ d.x2 - t.x2 \in {Tol, 0 - Tol} /\ <<d.x2, t.x2>> \notin RoundsBelow
    \/ d.y2 - t.y2 \in {Tol, 0 - Tol} /\ <<d.y2, t.y2>> \notin RoundsBelow

\* Every coordinate differs by less than the tolerance, or by exactly the
\* tolerance with a binary64 difference below the binary64 0.005.
AllCoordinatesComputedWithin(d, t) ==
    /\ Within(d.x1, t.x1) \/ <<d.x1, t.x1>> \in RoundsBelow
    /\ Within(d.y1, t.y1) \/ <<d.y1, t.y1>> \in RoundsBelow
    /\ Within(d.x2, t.x2) \/ <<d.x2, t.x2>> \in RoundsBelow
    /\ Within(d.y2, t.y2) \/ <<d.y2, t.y2>> \in RoundsBelow

\* The matcher has compared its one row with its one candidate.
MatcherCompared == Len(train_personID) = 1 /\ Len(dicts) = 1

\* The propagator has seeded row 1 and looked at row 2.
PropagatorCompared ==
    Len(train_without_personID) = 2 /\ Propagating /\ index >= 1

\* C8 as stated: a coordinate exactly 0.005 off prevents the match, in the
\* matcher and in the look-ahead; four coordinates less than 0.005 off give it.
C8_StrictOnDecimalDifference ==
    /\ MatcherCompared =>
           LET d == train_without_personID[1]
               t == train_personID[1]
           IN  /\ SomeCoordinateAtTol(d, t) =>
                      dicts[1].person_id = Unassigned
               /\ AllCoordinatesWithin(d, t) =>
                      dicts[1].person_id = t.person_id - 1
    /\ PropagatorCompared =>
           /\ SomeCoordinateAtTol(train_temp[1], train_temp[2]) =>
                  fragment[2] # 1
           /\ AllCoordinatesWithin(train_temp[1], train_temp[2]) =>
                  fragment[2] = 1

\* C8 as amended: the comparison is strict on the binary64 difference.  A
\* coordinate exactly 0.005 off whose computed difference is not below 0.005
\* prevents the match; four coordinates that are each less than 0.005 off, or
\* exactly 0.005 off with a computed difference below 0.005 (0.1 and 0.105),
\* give it.
C8_StrictOnComputedDifference ==
    /\ MatcherCompared =>
           LET d == train_without_personID[1]
               t == train_personID[1]
           IN  /\ SomeCoordinateAtTolComputed(d, t) =>
                      dicts[1].person_id = Unassigned
               /\ AllCoordinatesWithin(d, t) =>
                      dicts[1].person_id = t.person_id - 1
               /\ AllCoordinatesComputedWithin(d, t) =>
                      dicts[1].person_id = t.person_id - 1
    /\ PropagatorCompared =>
           /\ SomeCoordinateAtTolComputed(train_temp[1], train_temp[2]) =>
                  fragment[2] # 1
           /\ AllCoordinatesWithin(train_temp[1], train_temp[2]) =>
                  fragment[2] = 1
           /\ AllCoordinatesComputedWithin(train_temp[1], train_temp[2]) =>
                  fragment[2] = 1

\* The look-ahead met a row with y2 0.305 against the seed's 0.3 and the
\* other coordinates 0.0049 off: the chain did not extend.
C8_Witness ==
    /\ pc = "done"
    /\ Len(train_temp) = 2
    /\ train_temp[2].x1 = train_temp[1].x1 + (Tol - 1)
    /\ train_temp[2].y1 = train_temp[1].y1 - (Tol - 1)
    /\ train_temp[2].x2 = train_temp[1].x2 + (Tol - 1)
    /\ train_temp[2].y2 = train_temp[1].y2 + Tol
    /\ fragment = <<1, 2>>
    /\ train_temp[2].person_id = 1

\* C11: a row whose frame_idx or coordinates do not parse never ends
\* train_fixed.py early: the script gets past its sort, and its pass ends
\* having gone over every row.
C11_MalformedRowNeverAborts ==
    /\ pc # "aborted"
    /\ pc = "done" => index = Len(train_temp)

\* The rows of train_personID whose frame and coordinates parse.
WellFormedRow(t) == ~HasMalformedCell(t)

\* C12: the matcher emits one row per row it has gone over, whatever cells
\* fail to parse; a row of train_without_personID with a malformed cell is
\* emitted with person_id -1; and every row is emitted as it would be with
\* the malformed rows of train_personID taken out: with the person_id, minus
\* one, of the first well-formed row that has its video, frame and box, or
\* with -1 when there is none.
C12_MalformedRowsSkipped ==
    /\ Len(dicts) = i
    /\ pc # "match" => Len(dicts) = Len(train_without_personID)
    /\ \A k \in 1..Len(dicts) :
           LET d    == train_without_personID[k]
               good == SelectSeq(train_personID, WellFormedRow)
               cand == {j \in 1..Len(good) : SameVideoFrameBox(d, good[j])}
           IN  /\ SameDetection(dicts[k], d)
               /\ HasMalformedCell(d) => dicts[k].person_id = Unassigned
               /\ dicts[k].person_id =
                      IF cand = {} THEN Unassigned
                      ELSE good[MinOf(cand)].person_id - 1

\* A malformed row of train_without_personID was emitted with -1, and the
\* row after it took the identity of a candidate that stands behind a
\* malformed candidate.
C12_Witness ==
    /\ Len(dicts) = 2
    /\ Len(train_personID) = 2
    /\ HasMalformedCell(train_without_personID[1])
    /\ dicts[1].person_id = Unassigned
    /\ HasMalformedCell(train_personID[1])
    /\ train_personID[2].person_id = 1
    /\ dicts[2].person_id = 0

\* C13: with no row in train_without_personID the matcher emits nothing and
\* train_fixed.py, run on the empty list, ends with an empty list and does
\* not abort; with no row in train_personID the matcher emits every row of
\* train_without_personID, in order, with person_id -1.
C13_EmptyInputs ==
    /\ train_without_personID = <<>> =>
           /\ dicts = <<>>
           /\ train_temp = <<>>
           /\ pc # "aborted"
    /\ train_personID = <<>> =>
           /\ Len(dicts) = i
           /\ pc # "match" => Len(dicts) = Len(train_without_personID)
           /\ \A k \in 1..Len(dicts) :
                  /\ SameDetection(dicts[k], train_without_personID[k])
                  /\ dicts[k].person_id = Unassigned

\* Both scripts have ended on an empty train_without_personID and a full
\* train_personID.
C13_Witness ==
    /\ pc = "done"
    /\ train_without_personID = <<>>
    /\ Len(train_personID) = MaxWith
    /\ dicts = <<>>
    /\ train_temp = <<>>

\* C14: no step changes train_personID, the rows already emitted stay as
\* they are, and two equal rows of train_without_personID are emitted with
\* the same person_id wherever they stand, so that one row of train_personID
\* can give its identity to several rows.
C14_WithIdentityNotConsumed ==
    [][/\ train_personID' = train_personID
       /\ Len(dicts') >= Len(dicts)
       /\ SubSeq(dicts', 1, Len(dicts)) = dicts
       /\ \A j, k \in 1..Len(dicts') :
              train_without_personID[j] = train_without_personID[k]
                  => dicts'[j] = dicts'[k]
      ]_vars

\* The one row of train_personID gave its identity to two rows.
C14_Witness ==
    /\ Len(dicts) = 2
    /\ Len(train_personID) = 1
    /\ train_personID[1].person_id = 1
    /\ train_without_personID[1] = train_without_personID[2]
    /\ dicts[1].person_id = 0
    /\ dicts[2].person_id = 0

\* Ascending by (video_name, frame_idx).
Ordered(rows) ==
    \A k \in 1..(Len(rows) - 1) :
        \/ rows[k].video_name < rows[k + 1].video_name
        \/ /\ rows[k].video_name = rows[k + 1].video_name
           /\ rows[k].frame_idx <= rows[k + 1].frame_idx

\* C15: from the sort on, through the pass and in the list written at the
\* end, train_temp is ordered by (video_name, frame_idx) and is the rows of
\* the file in another order: each row of the file stands at exactly one
\* position, with its cells unchanged but for a person_id that was -1.
C15_SortedPermutation ==
    Propagating =>
        /\ Ordered(train_temp)
        /\ Len(train_temp) = Len(dicts)
        /\ \E p \in Permutations(1..Len(dicts)) :
               \A k \in 1..Len(dicts) :
                   /\ SameDetection(train_temp[k], dicts[p[k]])
                   /\ \/ train_temp[k].person_id = dicts[p[k]].person_id
                      \/ dicts[p[k]].person_id = Unassigned

\* The file held three rows in descending order of (video_name, frame_idx);
\* the list written holds them in ascending order.
C15_Witness ==
    /\ pc = "done"
    /\ Len(dicts) = 3
    /\ dicts[1].video_name > dicts[2].video_name
    /\ dicts[2].frame_idx > dicts[3].frame_idx
    /\ SameDetection(train_temp[1], dicts[3])
    /\ SameDetection(train_temp[2], dicts[2])
    /\ SameDetection(train_temp[3], dicts[1])

\* The rows of video v, in the order of the list.
VideoRows(rows, v) == SelectSeq(rows, LAMBDA r : r.video_name = v)

\* C16: the list written at the end is what the pass gives on the whole
\* file, and the rows of each video in it are what train_fixed.py gives
\* when it is run on the rows of that video alone.
C16_PerVideoIndependent ==
    pc = "done" =>
        /\ train_temp = train_csv(dicts)
        /\ \A v \in {dicts[k].video_name : k \in 1..Len(dicts)} :
               VideoRows(train_temp, v) = train_csv(VideoRows(dicts, v))

\* The last row of video 1 is a seed numbered 1, and the first row of video
\* 2, with the seed's box and within 10 frames of it, is a seed numbered 0.
C16_Witness ==
    /\ pc = "done"
    /\ Len(train_temp) = 3
    /\ train_temp[2].video_name = 1
    /\ train_temp[3].video_name = 2
    /\ fragment[2] = 2
    /\ fragment[3] = 3
    /\ BoxWithin(2, 3)
    /\ FrameDistance(2, 3) <= 10
    /\ train_temp[2].person_id = 1
    /\ train_temp[3].person_id = 0

\* A list of four numbers / of two numbers.
FourNumbers(b) == Len(b) = 4 /\ \A c \in 1..4 : b[c] # Malformed

TwoNumbers(t) == Len(t) = 2 /\ \A c \in 1..2 : t[c] # Malformed

\* x1 < x2 and y1 < y2.
NonDegenerate(b) == FourNumbers(b) /\ b[1] < b[3] /\ b[2] < b[4]

\* The length of the overlap of [lo1, hi1] and [lo2, hi2] (0: none).
OverlapLength(lo1, hi1, lo2, hi2) ==
    LET lo == MaxOf({lo1, lo2})
        hi == MinOf({hi1, hi2})
    IN  IF lo < hi THEN hi - lo ELSE 0

BoxArea(b) == (b[3] - b[1]) * (b[4] - b[2])

OverlapArea(a, b) ==
    OverlapLength(a[1], a[3], b[1], b[3])
        * OverlapLength(a[2], a[4], b[2], b[4])

\* C17: the value returned for (box1, box2) is the value of
\* calculate_spatial_iou on (box2, box1), whether the boxes are valid,
\* degenerate or not boxes at all.
C17_SpatialSymmetric ==
    iou # <<>> => iou = calculate_spatial_iou(box2, box1)

\* Two boxes of different areas that overlap in part: 1/5 both ways.
C17_Witness ==
    /\ pc = "returned"
    /\ box1 = <<0, 0, 2, 2>>
    /\ box2 = <<1, 1, 3, 2>>
    /\ iou = <<1, 5>>

\* C18: the value returned is a fraction between 0 and 1; for two
\* non-degenerate boxes the area of the intersection is at most the area of
\* the union; and for a non-degenerate box against itself the value is 1.
C18_SpatialBounds ==
    iou # <<>> =>
        /\ 0 <= iou[1]
        /\ iou[1] <= iou[2]
        /\ (NonDegenerate(box1) /\ NonDegenerate(box2)) =>
               OverlapArea(box1, box2) <=
                   BoxArea(box1) + BoxArea(box2) - OverlapArea(box1, box2)
        /\ (NonDegenerate(box1) /\ box2 = box1) => iou = One

\* A non-degenerate box against itself gave 1.
C18_Witness ==
    /\ pc = "returned"
    /\ box1 = <<0, 1, 2, 3>>
    /\ box2 = box1
    /\ iou = One

\* Two boxes with no common interior, touching ones included.
Apart(a, b) ==
    \/ a[3] <= b[1]
    \/ b[3] <= a[1]
    \/ a[4] <= b[2]
    \/ b[4] <= a[2]

\* C19: a value is returned for every pair of lists, and it is 0 when one of
\* the boxes has x1 >= x2 or y1 >= y2 and when the boxes have no common
\* interior, boxes that touch along an edge included.
C19_SpatialDegenerateZero ==
    /\ pc = "returned" /\ box1 # <<>> => iou # <<>>
    /\ (iou # <<>> /\ FourNumbers(box1) /\ FourNumbers(box2)) =>
           /\ ~NonDegenerate(box1) => iou = Zero
           /\ ~NonDegenerate(box2) => iou = Zero
           /\ Apart(box1, box2) => iou = Zero

\* A zero-width box against a box around it gave 0.
C19_Witness ==
    /\ pc = "returned"
    /\ box1 = <<2, 2, 2, 3>>
    /\ box2 = <<1, 1, 3, 3>>
    /\ iou = Zero

\* C20: for two intervals with start < end that overlap, the value returned
\* is the length of the overlap over the length from the earlier start to
\* the later end, between 0 and 1; it is 0 when an interval has
\* start >= end and when the intervals do not overlap; and it is the value
\* of calculate_temporal_iou on the intervals in the other order.
C20_TemporalIoU ==
    (tiou # <<>> /\ TwoNumbers(time1) /\ TwoNumbers(time2)) =>
        LET inter == OverlapLength(time1[1], time1[2], time2[1], time2[2])
            span  == MaxOf({time1[2], time2[2]}) - MinOf({time1[1], time2[1]})
        IN  /\ 0 <= tiou[1]
            /\ tiou[1] <= tiou[2]
            /\ tiou = calculate_temporal_iou(time2, time1)
            /\ IF time1[1] >= time1[2] \/ time2[1] >= time2[2] \/ inter = 0
               THEN tiou = Zero
               ELSE tiou[1] * span = inter * tiou[2]

\* The intervals of the source's own example, 1..5 and 3..7: 2/6.
C20_Witness ==
    /\ pc = "returned"
    /\ time1 = <<1, 5>>
    /\ time2 = <<3, 7>>
    /\ tiou = <<1, 3>>

\* The rows that seed s labelled, itself included.
Members(s) == {k \in 1..Len(fragment) : fragment[k] = s}

\* Row c, behind seed s, is one at which the look-ahead of s stops: it is of
\* another video, was resolved before s was reached, is more than 10 frames
\* from s, or its box is not within the tolerance of the box of s.
StopsAt(s, c) ==
    \/ ~SameVideo(c, s)
    \/ train_temp[c].person_id # Unassigned /\ fragment[c] < s
    \/ FrameDistance(c, s) > 10
    \/ ~BoxWithin(c, s)

\* C25: the rows a seed labelled are the seed and the rows right behind it,
\* at most 10 of them (11 rows in all), and none of them stands at or behind
\* a row at which the look-ahead stops.
C25_FragmentContiguous ==
    Propagating =>
        \A s \in Seeds :
            /\ Members(s) = s..(s + Cardinality(Members(s)) - 1)
            /\ Cardinality(Members(s)) <= 11
            /\ \A c \in (s + 1)..Len(train_temp) :
                   StopsAt(s, c) =>
                       \A k \in c..Len(train_temp) : fragment[k] # s

\* Twelve rows of one frame with one box: the first labelled the ten behind
\* it, and the twelfth, which no test of the look-ahead rejects, is a seed.
C25_Witness ==
    /\ pc = "done"
    /\ Len(train_temp) = 12
    /\ Members(1) = 1..11
    /\ fragment[12] = 12
    /\ SameVideo(12, 1)
    /\ FrameDistance(12, 1) = 0
    /\ BoxWithin(12, 1)

\* C26: in the step that seeds the row at index + 1, every other row that
\* is written held -1, stands behind the seed in the seed's video, at most
\* 10 frames from the seed and with its four coordinates within the
\* tolerance of the seed's, and gets the seed's person_id.
C26_LabelledAgainstSeed ==
    [][(pc = "prop" /\ index < Len(train_temp)) =>
          LET s == index + 1 IN
          \A k \in 1..Len(train_temp) :
              (k # s /\ train_temp'[k] # train_temp[k]) =>
                  /\ train_temp[k].person_id = Unassigned
                  /\ k > s
                  /\ SameVideo(k, s)
                  /\ FrameDistance(k, s) <= 10
                  /\ BoxWithin(k, s)
                  /\ train_temp'[k].person_id = train_temp'[s].person_id
      ]_vars

\* A box that moves 0.0049 per row: the second row took the identity of the
\* first; the third, within the tolerance of the second but not of the
\* first, did not.
C26_Witness ==
    /\ Propagating
    /\ Len(train_temp) >= 3
    /\ fragment[2] = 1
    /\ fragment[3] = 3
    /\ SameVideo(3, 1)
    /\ FrameDistance(3, 1) <= 10
    /\ BoxWithin(3, 2)
    /\ ~BoxWithin(3, 1)

\* The rows of the video of row s that stand before it.
EarlierInVideo(s) == {q \in 1..(s - 1) : SameVideo(q, s)}

C28_MatchedNeverUnassigned ==
    /\ \A k \in 1..Len(dicts) :
           Candidates(train_without_personID[k]) # {} =>
               dicts[k].person_id >= 0
    /\ Propagating =>
           \A k \in 1..Len(train_temp) :
               fragment[k] # 0 =>
                   \A j \in 1..Len(train_without_personID) :
                       SameDetection(train_temp[k],
                                     train_without_personID[j])
                           => Candidates(train_without_personID[j]) = {}

\* C29: train_fixed.py run on the list it has written gives that list.
C29_Idempotent ==
    pc = "done" => train_csv(train_temp) = train_temp

\* The list written came from a file that was not in order, holds a row
\* labelled by look-ahead, and two different rows of one video and frame.
C29_Witness ==
    /\ pc = "done"
    /\ Len(train_temp) = 3
    /\ ~Ordered(dicts)
    /\ \E k \in 1..3 : fragment[k] \notin {0, k}
    /\ \E j, k \in 1..3 :
           /\ j < k
           /\ SameVideo(j, k)
           /\ train_temp[j].frame_idx = train_temp[k].frame_idx
           /\ train_temp[j] # train_temp[k]

\* The number of options of the whole table.
RECURSIVE TotalOptions(_, _)
TotalOptions(attrs, ids) ==
    IF ids = {} THEN 0
    ELSE LET a == CHOOSE x \in ids : TRUE
         IN  (IF attrs[a] = NoOptions THEN 0 ELSE attrs[a])
                 + TotalOptions(attrs, ids \ {a})

\* The table whose attribute ids are 1..n, every attribute with options.
DenseTable ==
    /\ DOMAIN attributes = 1..Cardinality(DOMAIN attributes)
    /\ \A a \in DOMAIN attributes : attributes[a] # NoOptions

\* C30: every action_label written is a positive integer; two rows written
\* for different (attribute, option) pairs hold different labels; and for a
\* table of attributes 1..n with k_1..k_n options the labels written lie in
\* 1..k_1+...+k_n.
C30_LabelsOneToOne ==
    /\ \A k \in 1..Len(csv_rows) : csv_rows[k].action_id >= 1
    /\ \A j, k \in 1..Len(csv_rows) :
           (\/ csv_rows[j].attribute_id # csv_rows[k].attribute_id
            \/ csv_rows[j].av # csv_rows[k].av)
               => csv_rows[j].action_id # csv_rows[k].action_id
    /\ DenseTable
           => \A k \in 1..Len(csv_rows) :
                  csv_rows[k].action_id
                      <= TotalOptions(attributes, DOMAIN attributes)

\* Two rows of the same video, timestamp and person.
SameKey(r1, r2) ==
    /\ r1.video_name = r2.video_name
    /\ r1.timestamp = r2.timestamp
    /\ r1.person_id = r2.person_id

Partnered(row, frame) == \E j \in 1..Len(frame) : SameKey(row, frame[j])

BoxOf(row) == <<row.x1, row.y1, row.x2, row.y2>>

\* The two frames compared: the arguments, cut down to the video asked for
\* when one is asked for.
Compared1 == filtered(annotations1, video_name_arg)
Compared2 == filtered(annotations2, video_name_arg)

\* C21: every pair found is of a row of the first frame and a row of the
\* second frame that agree in video_name, timestamp and person_id;
\* total_matches is the number of rows of the first frame that have such a
\* partner; and the report is the one of the two frames without their
\* partnerless rows.
C21_JoinOnKey ==
    pc = "reported" =>
        /\ \A m \in 1..Len(matches) :
               \E k \in 1..Len(Compared1), j \in 1..Len(Compared2) :
                   /\ SameKey(Compared1[k], Compared2[j])
                   /\ SameKey(matches[m], Compared1[k])
                   /\ matches[m].box1 = BoxOf(Compared1[k])
                   /\ matches[m].box2 = BoxOf(Compared2[j])
        /\ results.total_matches =
               Cardinality({k \in 1..Len(Compared1) :
                                Partnered(Compared1[k], Compared2)})
        /\ results = calculate_annotation_agreement(
               SelectSeq(Compared1, LAMBDA r : Partnered(r, Compared2)),
               SelectSeq(Compared2, LAMBDA r : Partnered(r, Compared1)),
               NoVideo)

\* A row with a partner and a row whose only candidate differs in the person.
C21_Witness ==
    /\ pc = "reported"
    /\ results.total_matches = 1
    /\ Len(Compared1) = 2
    /\ \E k \in 1..2, j \in 1..Len(Compared2) :
           /\ ~Partnered(Compared1[k], Compared2)
           /\ Compared1[k].video_name = Compared2[j].video_name
           /\ Compared1[k].timestamp = Compared2[j].timestamp
           /\ Compared1[k].person_id # Compared2[j].person_id

\* A frame compared with itself, whole.
SelfCompared ==
    /\ pc = "reported"
    /\ annotations1 = annotations2
    /\ video_name_arg = NoVideo

\* C22 as stated: the report of a frame with itself has mean_spatial_iou
\* 1.0, label_accuracy 1.0 and as many matches as the frame has rows.
C22_SelfAgreement ==
    SelfCompared =>
        /\ results.mean_spatial_iou = One
        /\ results.label_accuracy = One
        /\ results.total_matches = Len(annotations1)

\* A frame that is not empty, whose boxes are four numbers with x1 < x2 and
\* y1 < y2, and whose rows of one video, timestamp and person all hold the
\* same box and the same label.
SelfConsistent(frame) ==
    /\ frame # <<>>
    /\ \A k \in 1..Len(frame) : is_valid_box(BoxOf(frame[k]))
    /\ \A j, k \in 1..Len(frame) :
           SameKey(frame[j], frame[k])
               => /\ BoxOf(frame[j]) = BoxOf(frame[k])
                  /\ frame[j].action_label = frame[k].action_label

\* C22, amended: the report of such a frame with itself has
\* mean_spatial_iou 1.0, label_accuracy 1.0 and as many matches as the
\* frame has rows.
C22_SelfAgreementOfConsistent ==
    (SelfCompared /\ SelfConsistent(annotations1)) =>
        /\ results.mean_spatial_iou = One
        /\ results.label_accuracy = One
        /\ results.total_matches = Len(annotations1)

\* Two different rows compared with themselves.
C22_Witness ==
    /\ SelfCompared
    /\ SelfConsistent(annotations1)
    /\ Len(annotations1) = 2
    /\ annotations1[1] # annotations1[2]
    /\ results.total_matches = 2

\* A pair whose IoU could not be computed: one of its boxes has a
\* non-numeric coordinate or no width or no height.
FailedPair(m) == ~is_valid_box(m.box1) \/ ~is_valid_box(m.box2)

\* C23: a pair whose IoU could not be computed is left out: the report is
\* the one of the other pairs, in total_matches, in the mean and in every
\* other field.
C23_FailedRowsExcluded ==
    pc = "reported" =>
        results = report(SelectSeq(matches, LAMBDA m : ~FailedPair(m)))

\* The fields of the report of a call that found pairs (lines 129-137).
ReportFields ==
    {"mean_spatial_iou", "median_spatial_iou", "std_spatial_iou",
     "label_accuracy", "total_matches", "high_iou_matches",
     "low_iou_samples"}

\* C24: when no row of the first frame has a partner the report has the
\* fields of any other report, the numbers 0 and the list empty.
C24_EmptyReportWellFormed ==
    (pc = "reported" /\ Len(matches) = 0) =>
        /\ DOMAIN results = ReportFields
        /\ results.mean_spatial_iou = Zero
        /\ results.median_spatial_iou = Zero
        /\ results.std_spatial_iou = Zero
        /\ results.label_accuracy = Zero
        /\ results.total_matches = 0
        /\ results.high_iou_matches = 0
        /\ results.low_iou_samples = <<>>

====
